---- MODULE Spec2Model ----
(***************************************************************************)
(* Model of scripts/fight_script.py: the battle loop that lists the        *)
(* controllers and pods of a namespace through kubectl, picks one          *)
(* controller at random and scales it down by one replica, round after     *)
(* round.                                                                  *)
(*                                                                         *)
(* Text (a Python str) is a sequence of one-character strings, so that     *)
(* strip, replace, split, isdigit, int and str are computed as Python      *)
(* computes them.  Python's None is the value None below.                  *)
(***************************************************************************)
EXTENDS Integers, Sequences, FiniteSets, TLC

\* ------------------------------------------------------------------ bounds
MaxReplicas == 2
MaxRound == 2

\* ------------------------------------------------------------ text values
None == <<"<None>">>
Quote == "'"
NL == "\n"
Whitespace == {NL, " "}
DigitChars == <<"0", "1", "2", "3", "4", "5", "6", "7", "8", "9">>

\* Python truthiness of a str-or-None value.
Falsy(x) == x = None \/ x = <<>>

\* The one element of a singleton set.  An operator that reads an argument
\* many times takes it as v in {argument}: a bound v holds the value.
The(S) == CHOOSE v \in S : TRUE

\* Python's `x or d`.
OrElse(x, d) == The({IF Falsy(v) THEN d ELSE v : v \in {x}})

Max(a, b) == IF a >= b THEN a ELSE b

\* str.strip(): the text between its first and last non-whitespace characters
StripText(s) ==
    LET inked == {i \in 1..Len(s) : s[i] \notin Whitespace}
    IN IF inked = {} THEN <<>>
       ELSE SubSeq(s, CHOOSE i \in inked : \A j \in inked : i <= j,
                      CHOOSE i \in inked : \A j \in inked : i >= j)

Strip(s) == The({StripText(v) : v \in {s}})

\* str.replace(old, "") for a one-character old
Replace(s, old) == SelectSeq(s, LAMBDA c : c # old)

\* the position of the k-th separator of those at the positions `at` of a text
\* of length n; 0 and n + 1 stand for the ends of the text
SepAt(at, n, k) ==
    IF k = 0 THEN 0
    ELSE IF k = Cardinality(at) + 1 THEN n + 1
    ELSE CHOOSE i \in at : Cardinality({j \in at : j < i}) = k - 1

SplitText(s, sep) ==
    The({[k \in 1..(Cardinality(at) + 1) |->
              SubSeq(s, SepAt(at, Len(s), k - 1) + 1, SepAt(at, Len(s), k) - 1)] :
             at \in {{i \in 1..Len(s) : s[i] = sep}}})

\* str.split(sep) for a one-character sep: the texts between the separators,
\* one more than there are separators ("".split(sep) is [""])
Split(s, sep) == The({SplitText(v, sep) : v \in {s}})

\* str.isdigit()
IsDigit(s) ==
    /\ s # None
    /\ s # <<>>
    /\ \A i \in 1..Len(s) : \E d \in 1..Len(DigitChars) : DigitChars[d] = s[i]

DigitVal(c) == (CHOOSE d \in 1..Len(DigitChars) : DigitChars[d] = c) - 1

\* int(s) for a string of digits
RECURSIVE ToInt(_)
ToInt(s) ==
    IF s = <<>> THEN 0
    ELSE 10 * ToInt(SubSeq(s, 1, Len(s) - 1)) + DigitVal(s[Len(s)])

\* str(n)
RECURSIVE StrNat(_)
StrNat(n) ==
    IF n < 10 THEN <<DigitChars[n + 1]>>
    ELSE StrNat(n \div 10) \o <<DigitChars[(n % 10) + 1]>>

ToStr(n) == IF n < 0 THEN <<"-">> \o StrNat(0 - n) ELSE StrNat(n)

\* concatenation of the first n texts of a sequence
RECURSIVE Flatten(_, _)
Flatten(ss, n) == IF n = 0 THEN <<>> ELSE Flatten(ss, n - 1) \o ss[n]

\* run_command: the stripped stdout of a command that exits 0, None otherwise.
run_command(ok, stdout) == IF ok THEN Strip(stdout) ELSE None

\* ------------------------------------------------------------ the cluster
Kinds == <<"deployment", "statefulset", "replicaset">>
KindSet == {Kinds[i] : i \in 1..Len(Kinds)}

\* names in the order kubectl lists them
NameOrder == << <<"a">>, <<"b">>, <<"c">> >>
PodOrder == << <<"a", "1">>, <<"b", "1">>, <<"c", "1">> >>
\* the controllers a cluster of the general specification may hold
Universe ==
    {<<"deployment", NameOrder[1]>>, <<"deployment", NameOrder[2]>>,
     <<"statefulset", NameOrder[1]>>, <<"replicaset", NameOrder[2]>>}
GenPods == {PodOrder[1], PodOrder[2]}

VARIABLES
    ns_exists,          \* the namespace exists in the cluster
    spec_replicas,      \* <<kind, name>> -> .spec.replicas, for each controller
    cpods,              \* names of the pods of the namespace
    pc,                 \* position of battle() in its round
    round_num,
    max_rounds,         \* <<>> for None, <<N>> for --max-rounds N
    controllers,        \* battle's controllers list of this round
    pods,               \* battle's pods list of this round
    target_controller,
    controller_type,
    replicas,           \* reduce_controller's replicas string
    result,             \* reduce_controller's return value: "", "True", "False"
    scale_args,         \* <<kind, name, count>> of this round's kubectl scale
    replaced,           \* the count that scale command overwrote, -1 if none
    outcome,            \* how the run ended, "running" before
    winner,             \* the name the run declared winner, None before
    attempts,           \* calls of reduce_controller made by the run
    reductions          \* scale commands of the run that succeeded

cluster == <<ns_exists, spec_replicas, cpods>>
locals == <<controllers, pods, target_controller, controller_type, replicas,
            result, scale_args, replaced>>
run == <<pc, round_num, max_rounds, outcome, winner, attempts, reductions>>
vars == <<cluster, locals, run>>

Exists(kind, name) == <<kind, name>> \in DOMAIN spec_replicas

NamesOf(kind) == SelectSeq(NameOrder, LAMBDA n : Exists(kind, n))
PodNames == SelectSeq(PodOrder, LAMBDA p : p \in cpods)

\* stdout of -o jsonpath='{range .items[*]}{.metadata.name}{"\n"}{end}' passed
\* without a shell: the quotes are text of the template and are printed.
Jsonpath(names) ==
    <<Quote>> \o Flatten([i \in 1..Len(names) |-> names[i] \o <<NL>>], Len(names))
              \o <<Quote>>

\* stdout of a kubectl get that prints a table
Table == <<"N", "A", "M", "E", NL>>

\* kubectl get <kind> <name> -n ns through the shell: <<exit 0, stdout>>.
\* With an empty name the command lists every controller of the kind.
KubectlGet(kind, name) ==
    IF name = <<>>
    THEN <<TRUE, IF NamesOf(kind) # <<>> THEN Table ELSE <<>> >>
    ELSE <<Exists(kind, name), Table>>

\* what kubectl get <kind> <name> -o jsonpath='{.spec.replicas}' can print for a
\* controller that exists: the count, nothing when the field is unset, or a
\* line that is no number
ReplicaOutputs(kind, name) ==
    IF Exists(kind, name)
    THEN {ToStr(spec_replicas[<<kind, name>>]), <<>>, <<"-", "1">>}
    ELSE {<<>>}

\* ---------------------------------------------------------------- Init
\* a cluster holds at most two controllers of the universe, at any counts
Clusters ==
    UNION {[D -> 0..MaxReplicas] :
               D \in {E \in SUBSET Universe : Cardinality(E) <= 2}}

LocalsInit ==
    /\ controllers = <<>>
    /\ pods = <<>>
    /\ target_controller = None
    /\ controller_type = ""
    /\ replicas = None
    /\ result = ""
    /\ scale_args = <<>>
    /\ replaced = -1

RunInit ==
    /\ pc = "get_controllers"
    /\ round_num = 1
    /\ outcome = "running"
    /\ winner = None
    /\ attempts = 0
    /\ reductions = 0

Init ==
    /\ ns_exists = TRUE
    /\ spec_replicas \in Clusters
    /\ cpods \in SUBSET GenPods
    /\ max_rounds \in {<<>>} \cup {<<n>> : n \in 0..MaxRound}
    /\ LocalsInit
    /\ RunInit

\* ------------------------------------------------------------ get_controllers
\* the names a listing output contributes to the controllers list (lines 64-65)
ListedNames(output) ==
    IF Falsy(output) THEN <<>> ELSE Split(Replace(output, Quote), NL)

\* lines 61-65
CombineControllers(deployments, statefulsets, replicasets) ==
    ListedNames(deployments) \o ListedNames(statefulsets) \o ListedNames(replicasets)

\* lines 77-78
PodList(pods_output) ==
    SelectSeq(Split(Replace(pods_output, Quote), NL), LAMBDA pod : pod # <<>>)

\* the namespace check left out
NamespaceMissing_Never(ns_check) == FALSE

\* line 36
NamespaceMissing(ns_check) == Falsy(ns_check)

\* the pod listing used without its `or ""`: None.replace raises
GetControllers_PodsRaise(nsOk, depOk, stsOk, rsOk, podOk) ==
    LET ns_check == run_command(ns_exists /\ nsOk, Table)
        deployments == OrElse(run_command(depOk, Jsonpath(NamesOf("deployment"))), <<>>)
        statefulsets == OrElse(run_command(stsOk, Jsonpath(NamesOf("statefulset"))), <<>>)
        replicasets == OrElse(run_command(rsOk, Jsonpath(NamesOf("replicaset"))), <<>>)
        pods_output == run_command(podOk, Jsonpath(PodNames))
    IN IF NamespaceMissing(ns_check) \/ pods_output = None
       THEN <<>>
       ELSE <<CombineControllers(deployments, statefulsets, replicasets),
              PodList(pods_output)>>

\* get_controllers: <<>> for the bare [] of line 38, else <<controllers, pods>>
GetControllers(nsOk, depOk, stsOk, rsOk, podOk) ==
    LET ns_check == run_command(ns_exists /\ nsOk, Table)
        deployments == OrElse(run_command(depOk, Jsonpath(NamesOf("deployment"))), <<>>)
        statefulsets == OrElse(run_command(stsOk, Jsonpath(NamesOf("statefulset"))), <<>>)
        replicasets == OrElse(run_command(rsOk, Jsonpath(NamesOf("replicaset"))), <<>>)
        pods_output == OrElse(run_command(podOk, Jsonpath(PodNames)), <<>>)
    IN IF NamespaceMissing(ns_check)
       THEN <<>>
       ELSE <<CombineControllers(deployments, statefulsets, replicasets),
              PodList(pods_output)>>

\* ------------------------------------------------------------ battle, 178-203
\* How the round goes on after the snapshot `got`.  Unpacking the bare [] into
\* (controllers, pods) at line 181 raises ValueError, which ends the run.
SnapshotOutcome(got) ==
    IF Len(got) # 2 THEN "error"
    ELSE IF got[1] = <<>> THEN "no_controllers"
    ELSE IF got[2] = <<>> THEN "no_pods"
    ELSE IF Len(got[1]) = 1 /\ Len(got[2]) <= 1 THEN "winner"
    ELSE "running"

\* lines 199-202
Winner(cs, ps) == IF ps # <<>> THEN ps[1] ELSE cs[1]

\* One round's snapshot and its end conditions.  get_pod_metrics (line 194)
\* only feeds the report line: whether its commands succeed (metricsOk) changes
\* nothing the loop reads.
get_controllers(nsOk, depOk, stsOk, rsOk, podOk, metricsOk) ==
    /\ pc = "get_controllers"
    /\ \E got \in {GetControllers(nsOk, depOk, stsOk, rsOk, podOk)} :
       \E end \in {SnapshotOutcome(got)} :
          /\ outcome' = end
          /\ pc' = IF end = "running" THEN "select" ELSE "done"
          /\ IF end = "error"
             THEN UNCHANGED <<controllers, pods>>
             ELSE controllers' = got[1] /\ pods' = got[2]
          /\ winner' = IF end = "winner" THEN Winner(got[1], got[2]) ELSE winner
    /\ UNCHANGED <<cluster, target_controller, controller_type, replicas, result,
                   scale_args, replaced>>
    /\ UNCHANGED <<round_num, max_rounds, attempts, reductions>>

\* --------------------------------------------- select_controller_for_reduction
\* lines 126-131: the kinds are probed in a fixed order
ProbeType(isDeployment, isStatefulset) ==
    IF ~Falsy(isDeployment) THEN "deployment"
    ELSE IF ~Falsy(isStatefulset) THEN "statefulset"
    ELSE "replicaset"

\* battle's lines 206-208: random.choice picks index i; reduce_controller is
\* called when the name picked is truthy.
select_controller_for_reduction(i, depOk, stsOk) ==
    /\ pc = "select"
    /\ i \in 1..Len(controllers)
    /\ LET controller == controllers[i]
           getDep == KubectlGet("deployment", controller)
           getSts == KubectlGet("statefulset", controller)
           isDep == run_command(depOk /\ getDep[1], getDep[2])
           isSts == run_command(stsOk /\ getSts[1], getSts[2])
       IN /\ target_controller' = controller
          /\ controller_type' = ProbeType(isDep, isSts)
          /\ IF ~Falsy(controller)
             THEN /\ pc' = "read_replicas"
                  /\ attempts' = attempts + 1
             ELSE /\ pc' = "max_rounds_check"
                  /\ UNCHANGED attempts
    /\ UNCHANGED <<cluster, controllers, pods, replicas, result, scale_args,
                   replaced>>
    /\ UNCHANGED <<round_num, max_rounds, outcome, winner, reductions>>

\* ------------------------------------------------------------ reduce_controller
\* the test of line 150 without its `<= 0`
NotReducible_ZeroPasses(r) == Falsy(r) \/ ~IsDigit(r)

\* line 150
NotReducible(r) == Falsy(r) \/ ~IsDigit(r) \/ ToInt(r) <= 0

\* two off, and no floor
NewReplicas_NoFloor(r) == ToInt(r) - 2

\* line 154
NewReplicas(r) == Max(0, ToInt(r) - 1)

\* line 148: the replica query fails for a controller that does not exist
ReadReplicas(ok, out) ==
    run_command(ok /\ Exists(controller_type, target_controller), out)

\* lines 137-152: the read of the current replica count.  replicas is a local
\* of reduce_controller: it is gone (None here) once the function has returned.
read_replicas(ok, out) ==
    /\ pc = "read_replicas"
    /\ out \in ReplicaOutputs(controller_type, target_controller)
    /\ IF Falsy(target_controller)
       THEN /\ result' = "False"
            /\ pc' = "max_rounds_check"
            /\ UNCHANGED replicas
       ELSE LET r == ReadReplicas(ok, out)
            IN IF NotReducible(r)
               THEN /\ result' = "False"
                    /\ pc' = "max_rounds_check"
                    /\ UNCHANGED replicas
               ELSE /\ replicas' = r
                    /\ pc' = "scale"
                    /\ UNCHANGED result
    /\ UNCHANGED <<cluster, controllers, pods, target_controller, controller_type,
                   scale_args, replaced>>
    /\ UNCHANGED <<round_num, max_rounds, outcome, winner, attempts, reductions>>

\* kubectl scale <kind> <name> --replicas <count>: the cluster sets the count
\* it is given, whatever the count is now.
KubectlScale(kind, name, count) ==
    [spec_replicas EXCEPT ![<<kind, name>>] = ToInt(count)]

\* a scale command that is refused when the count changed since it was read
ScaleDone_IfUnchanged(ok, count) ==
    /\ ok
    /\ Exists(controller_type, target_controller)
    /\ IsDigit(count)
    /\ spec_replicas[<<controller_type, target_controller>>] = ToInt(replicas)

\* the scale command exits 0: the controller exists and the count is a number
ScaleDone(ok, count) ==
    ok /\ Exists(controller_type, target_controller) /\ IsDigit(count)

\* lines 154-168: the scale command.  What the pods do then is the cluster's
\* part of the step (see Next).
scale(ok) ==
    /\ pc = "scale"
    /\ LET count == ToStr(NewReplicas(replicas))
       IN /\ scale_args' = <<controller_type, target_controller, count>>
          /\ IF ScaleDone(ok, count)
             THEN /\ spec_replicas' =
                        KubectlScale(controller_type, target_controller, count)
                  /\ replaced' = spec_replicas[<<controller_type, target_controller>>]
                  /\ result' = "True"
                  /\ reductions' = reductions + 1
             ELSE /\ result' = "False"
                  /\ UNCHANGED <<spec_replicas, reductions, replaced>>
    /\ pc' = "max_rounds_check"
    /\ replicas' = None
    /\ UNCHANGED <<ns_exists, controllers, pods, target_controller, controller_type>>
    /\ UNCHANGED <<round_num, max_rounds, outcome, winner, attempts>>

\* ------------------------------------------------------------ battle, 210-218
\* line 211: `max_rounds and round_num >= max_rounds`
Limited == max_rounds # <<>> /\ max_rounds[1] # 0
\* the limit tested one round late
LimitReached_Late == Limited /\ round_num > max_rounds[1]

LimitReached == Limited /\ round_num >= max_rounds[1]

\* a run without a round limit is followed for MaxRound rounds
Followed == Limited \/ round_num < MaxRound

\* The locals of the round are dead once the round is over: the next round
\* assigns each of them before it reads it.
max_rounds_check ==
    /\ pc = "max_rounds_check"
    /\ IF LimitReached
       THEN /\ pc' = "done"
            /\ outcome' = "max_rounds"
            /\ UNCHANGED <<round_num, locals>>
       ELSE /\ Followed
            /\ round_num' = round_num + 1
            /\ pc' = "get_controllers"
            /\ controllers' = <<>>
            /\ pods' = <<>>
            /\ target_controller' = None
            /\ controller_type' = ""
            /\ replicas' = None
            /\ result' = ""
            /\ scale_args' = <<>>
            /\ replaced' = -1
            /\ UNCHANGED outcome
    /\ UNCHANGED <<cluster, max_rounds, winner, attempts, reductions>>

\* ------------------------------------------------------------ other actors
\* The cluster changes under the loop.  A change is modelled at the point where
\* the loop next reads what it changes: the replica counts before the read and
\* before the write of reduce_controller, the pods and the namespace before a
\* round's listing.

\* another operator or an autoscaler sets a controller's replica count
external_scale(key, n) ==
    /\ pc \in {"read_replicas", "scale"}
    /\ key \in DOMAIN spec_replicas
    /\ spec_replicas[key] # n
    /\ spec_replicas' = [spec_replicas EXCEPT ![key] = n]
    /\ UNCHANGED <<ns_exists, cpods, locals, run>>

\* pods start and stop
pods_change(ps) ==
    /\ pc = "get_controllers"
    /\ ps # cpods
    /\ cpods' = ps
    /\ UNCHANGED <<ns_exists, spec_replicas, locals, run>>

\* the namespace is deleted
namespace_deleted ==
    /\ pc = "get_controllers"
    /\ ns_exists
    /\ ns_exists' = FALSE
    /\ UNCHANGED <<spec_replicas, cpods, locals, run>>

Next ==
    \/ \E nsOk, depOk, stsOk, rsOk, podOk, metricsOk \in BOOLEAN :
           get_controllers(nsOk, depOk, stsOk, rsOk, podOk, metricsOk)
    \/ \E i \in 1..Len(controllers), depOk, stsOk \in BOOLEAN :
           select_controller_for_reduction(i, depOk, stsOk)
    \/ \E ok \in BOOLEAN, out \in ReplicaOutputs(controller_type, target_controller) :
           read_replicas(ok, out)
    \/ (\E ok \in BOOLEAN : scale(ok)) /\ UNCHANGED cpods
    \/ max_rounds_check
    \/ \E key \in DOMAIN spec_replicas, n \in 0..MaxReplicas : external_scale(key, n)
    \/ \E ps \in SUBSET GenPods : pods_change(ps)
    \/ namespace_deleted

Spec == Init /\ [][Next]_vars

\* ------------------------------------------------------------ the scenario
\* Three deployments at one replica each, one pod each, --max-rounds 5; every
\* command succeeds, nobody else writes, and a pod is gone as soon as its
\* deployment is scaled to 0.
PodsFollowing(reps) ==
    {PodOrder[i] : i \in {j \in 1..Len(NameOrder) :
                              /\ <<"deployment", NameOrder[j]>> \in DOMAIN reps
                              /\ reps[<<"deployment", NameOrder[j]>>] >= 1}}

InitScenario ==
    /\ ns_exists = TRUE
    /\ spec_replicas = [k \in {<<"deployment", NameOrder[i]>> : i \in 1..3} |-> 1]
    /\ cpods = PodsFollowing(spec_replicas)
    /\ max_rounds = <<5>>
    /\ LocalsInit
    /\ RunInit

NextScenario ==
    \/ get_controllers(TRUE, TRUE, TRUE, TRUE, TRUE, TRUE)
    \/ \E i \in 1..Len(controllers) : select_controller_for_reduction(i, TRUE, TRUE)
    \/ \E out \in {o \in ReplicaOutputs(controller_type, target_controller) : IsDigit(o)} :
           read_replicas(TRUE, out)
    \/ scale(TRUE) /\ cpods' = PodsFollowing(spec_replicas')
    \/ max_rounds_check

\* the loop is one sequential process: it takes its next step
SpecScenario == InitScenario /\ [][NextScenario]_vars /\ WF_vars(NextScenario)

\* ================================================================ the claims
ReduceKey == <<controller_type, target_controller>>
ProgramStep == pc' # pc
RealNames(cs) == SelectSeq(cs, LAMBDA c : c # <<>>)
FaultFree == GetControllers(TRUE, TRUE, TRUE, TRUE, TRUE)
Failures(flags) == Cardinality({i \in 1..Len(flags) : ~flags[i]})

\* no replica count is below zero and no scale call carries a negative count
NonNegative ==
    /\ \A k \in DOMAIN spec_replicas : spec_replicas[k] >= 0
    /\ scale_args # <<>> => IsDigit(scale_args[3])

LeavesFloor ==
    pc = "scale" /\ ProgramStep
    => spec_replicas'[ReduceKey] = Max(0, ToInt(replicas) - 1)

\* C1, as claimed: whenever reduce_controller has read a count r >= 0, the
\* count it leaves on the controller is max(0, r-1); no count is ever negative.
C1_Original == []NonNegative /\ [][LeavesFloor]_vars

ScaleStep ==
    pc = "scale" /\ ProgramStep
    => /\ scale_args' = <<controller_type, target_controller,
                          ToStr(Max(0, ToInt(replicas) - 1))>>
       /\ IF result' = "True"
          THEN spec_replicas' =
                   [spec_replicas EXCEPT ![ReduceKey] = Max(0, ToInt(replicas) - 1)]
          ELSE spec_replicas' = spec_replicas

ReadOfZero ==
    \A ok \in BOOLEAN, out \in ReplicaOutputs(controller_type, target_controller) :
        read_replicas(ok, out) /\ ReadReplicas(ok, out) = <<"0">>
        => spec_replicas' = spec_replicas /\ spec_replicas'[ReduceKey] = 0

\* C1, amended: the scale call issued for a count r >= 1 carries max(0, r-1);
\* the controller is left at that count when the call succeeds and at the count
\* it had when the call fails; a read of 0 changes no count; no replica count
\* is below zero and no scale call carries a negative count.
C1_Reduce == []NonNegative /\ [][ScaleStep]_vars /\ [][ReadOfZero]_vars

\* a scale call for a read of 2 succeeded and left the controller at 1
C1_Witness ==
    /\ pc = "max_rounds_check"
    /\ result = "True"
    /\ replaced = 2
    /\ scale_args[3] = <<"1">>
    /\ spec_replicas[ReduceKey] = 1

AttemptsWithinLimit == max_rounds # <<>> => attempts <= max_rounds[1]

LimitEndsRun ==
    max_rounds # <<>> /\ pc = "max_rounds_check" /\ ProgramStep
        /\ round_num = max_rounds[1]
    => pc' = "done" /\ outcome' = "max_rounds"

\* C2, as claimed: with --max-rounds N, N >= 0, a run makes at most N calls of
\* reduce_controller, and the round that reaches N ends the run with the
\* round-limit outcome.
C2_AtMostN == []AttemptsWithinLimit /\ [][LimitEndsRun]_vars

LoneControllerWins ==
    get_controllers(TRUE, TRUE, TRUE, TRUE, TRUE, TRUE) /\ outcome' # "error"
        /\ Len(RealNames(controllers')) = 1 /\ Len(pods') <= 1
    => /\ pc' = "done"
       /\ outcome' = "winner"
       /\ winner' = IF pods' # <<>> THEN pods'[1] ELSE RealNames(controllers')[1]

\* C3, as claimed: a snapshot of exactly one controller and at most one pod,
\* taken with every command succeeding, ends the run in that round with a
\* winner: the pod, or the controller when there is no pod.
C3_Winner == [][LoneControllerWins]_vars

OneFailureGoesOn ==
    /\ ns_exists
    /\ DOMAIN spec_replicas # {}
    /\ cpods # {}
    /\ SnapshotOutcome(FaultFree) = "running"
    /\ \E d, s, r, p, m \in BOOLEAN :
           /\ Failures(<<d, s, r, p, m>>) = 1
           /\ get_controllers(TRUE, d, s, r, p, m)
    => pc' = "select"

\* C4, as claimed: in a round that finds controllers and pods and would go on
\* were every command to succeed, one failed probe (the namespace check apart)
\* does not end the run.
C4_Original == [][OneFailureGoesOn]_vars

\* what get_controllers makes of failed listings, the namespace check passing
SnapshotProbes ==
    pc = "get_controllers" /\ ns_exists
    => \A d, s, r, p \in BOOLEAN :
           \E end \in {SnapshotOutcome(GetControllers(TRUE, d, s, r, p))} :
               /\ end # "error"
               /\ (~d /\ ~s /\ ~r) => end = "no_controllers"
               /\ (~p /\ (d \/ s \/ r)) => end = "no_pods"
               /\ (p /\ Failures(<<d, s, r>>) <= 1
                     /\ SnapshotOutcome(FaultFree) = "running")
                  => end = "running"

\* the round goes the way of its snapshot, whatever the metric queries do
RoundFollowsSnapshot ==
    pc = "get_controllers" /\ ProgramStep /\ outcome' # "error"
    => /\ outcome' = SnapshotOutcome(<<controllers', pods'>>)
       /\ pc' = IF outcome' = "running" THEN "select" ELSE "done"

ReduceProbes ==
    pc \in {"select", "read_replicas", "scale"} /\ ProgramStep
    => /\ pc' \in {"read_replicas", "scale", "max_rounds_check"}
       /\ outcome' = "running"

OnlyLimitEnds ==
    pc = "max_rounds_check" /\ pc' = "done"
    => LimitReached /\ outcome' = "max_rounds"

ErrorIsNamespace == outcome' = "error" /\ outcome # "error" => pc = "get_controllers"

\* C4, amended: no failed probe raises: the run ends with the error outcome
\* only when the namespace check fails.  A failed listing is an empty listing:
\* a failed pod listing ends the run as "no pods" (as "no controllers" when the
\* three controller listings fail too).  A failed metric query or one failed
\* controller listing leaves a round that would go on going on, and a failed
\* kind probe, replica read or scale command leads to the round-limit check,
\* which ends the run only when the limit is reached.
C4_Probes ==
    /\ []SnapshotProbes
    /\ [][RoundFollowsSnapshot]_vars
    /\ [][ReduceProbes]_vars
    /\ [][OnlyLimitEnds]_vars
    /\ [][ErrorIsNamespace]_vars

\* a scale command failed and the run goes on to its next round
C4_Witness ==
    /\ pc = "max_rounds_check"
    /\ scale_args # <<>>
    /\ result = "False"
    /\ ~LimitReached

NoNamespaceEnds ==
    pc = "get_controllers" /\ ~ns_exists /\ ProgramStep
    => /\ pc' = "done"
       /\ outcome' = "error"
       /\ UNCHANGED <<controllers, pods, spec_replicas, scale_args, attempts,
                      reductions, round_num>>

ErrorIsFinal ==
    outcome = "error"
    => /\ pc' = "done"
       /\ UNCHANGED <<spec_replicas, scale_args, attempts, reductions, round_num>>

\* C5: a round that starts without the namespace ends the run with the error
\* outcome: no listing is used, no scale call is made then or later, and no
\* further round starts.
C5_NoNamespace == [][NoNamespaceEnds]_vars /\ [][ErrorIsFinal]_vars

\* the namespace was gone at the start of round 2 and the run ended there
C5_Witness ==
    /\ pc = "done"
    /\ outcome = "error"
    /\ ~ns_exists
    /\ round_num = 2
    /\ controllers = <<>>

EmptyEnds ==
    get_controllers(TRUE, TRUE, TRUE, TRUE, TRUE, TRUE) /\ ns_exists
        /\ (DOMAIN spec_replicas = {} \/ cpods = {})
    => pc' = "done"

\* C6, as claimed: a round whose commands all succeed and that finds the
\* namespace without controllers, or without pods, ends the run in that round.
C6_EmptyEnds == [][EmptyEnds]_vars

\* the count read is absent, no number or not positive
AbsentOrNotPositive(r) == r = None \/ r = <<>> \/ ~IsDigit(r) \/ ToInt(r) <= 0

NoOpRead ==
    \A ok \in BOOLEAN, out \in ReplicaOutputs(controller_type, target_controller) :
        read_replicas(ok, out) /\ AbsentOrNotPositive(ReadReplicas(ok, out))
        => /\ result' = "False"
           /\ pc' = "max_rounds_check"
           /\ UNCHANGED <<spec_replicas, scale_args, reductions>>

ScaleNeedsPositive == pc = "scale" => ~AbsentOrNotPositive(replicas)

\* C7: a replica count read as absent, non-numeric or <= 0 makes
\* reduce_controller return False with no scale call and no count changed;
\* the scale command is only reached with a count read as a positive number.
C7_NoOp == [][NoOpRead]_vars /\ []ScaleNeedsPositive

\* reduce_controller has returned False on a controller that is at 0 replicas
C7_Witness ==
    /\ pc = "max_rounds_check"
    /\ result = "False"
    /\ scale_args = <<>>
    /\ ReduceKey \in DOMAIN spec_replicas
    /\ spec_replicas[ReduceKey] = 0

\* C8, as claimed: every run of the scenario makes at most 3 successful
\* reductions and ends within 5 rounds with a winner or a battle-over outcome,
\* 0 or 1 pods remaining.  Stated of the runs that called reduce_controller in
\* every round, those whose every pick was the name of a deployment.
C8_Original ==
    /\ reductions <= 3
    /\ round_num <= 5
    /\ (pc = "done" /\ attempts = round_num)
       => /\ outcome \in {"winner", "no_controllers", "no_pods"}
          /\ Cardinality(cpods) <= 1

C8_Safe ==
    /\ reductions <= 3
    /\ round_num <= 5
    /\ Cardinality(cpods) = 3 - reductions
    /\ pc = "done" => \/ outcome = "no_pods" /\ cpods = {}
                      \/ outcome = "max_rounds" /\ round_num = 5

\* C8, amended: every run of the scenario makes at most 3 successful
\* reductions, each taking one pod away, and ends within 5 rounds: with the
\* "no pods" outcome once no pod is left, or else with the round-limit outcome
\* at round 5, whatever pods remain then.
C8_Scenario == []C8_Safe /\ <>(pc = "done")

\* the three deployments were scaled to 0 and the run ended as "no pods"
C8_Witness ==
    /\ pc = "done"
    /\ outcome = "no_pods"
    /\ reductions = 3
    /\ cpods = {}

Overwrites ==
    pc = "scale" /\ spec_replicas[ReduceKey] # ToInt(replicas) /\ scale(TRUE)
    => /\ result' = "True"
       /\ spec_replicas'[ReduceKey] = ToInt(replicas) - 1

\* C9: a scale command that succeeds sets the count read minus one even when
\* the controller's count is no longer the count read.
C9_Overwrite == [][Overwrites]_vars

\* the write has raised a count that another actor had lowered after the read
C9_Witness ==
    /\ pc = "max_rounds_check"
    /\ result = "True"
    /\ replaced # -1
    /\ replaced < spec_replicas[ReduceKey]

\* C10, as claimed: the controllers list holds non-empty names only, and the
\* name selected for reduction is never the empty string.
C10_NamesOnly ==
    /\ controllers = RealNames(controllers)
    /\ target_controller # <<>>

====
